---- MODULE Spec2Model ----
(***************************************************************************)
(* python_spirograph: the transform library (standard_transforms.py,       *)
(* spiral_transforms.py, spirograph_transforms.py), the preset registry    *)
(* (patterns.py) and pattern assembly (main.py: draw_pattern).             *)
(*                                                                         *)
(* Numbers.  The program computes in float64.  The model computes in       *)
(* fixed point: a real r is the integer nearest to r * Scale, tagged       *)
(* "fin"; the two non-finite kinds numpy produces instead of raising       *)
(* (x / 0, 0 / 0) are tagged "inf" (with a sign) and "nan".  Angles are     *)
(* radians in the same fixed point, with pi = PI / Scale, so that a        *)
(* quarter turn, a half turn and a full turn are exact.                    *)
(***************************************************************************)
EXTENDS Integers, Sequences, FiniteSets, TLC

\* ------------------------------------------------------------------ bounds
\* Fixed-point resolution: units per 1.0.
Scale == 100
\* Samples of theta per pattern (main.py:29 uses 50000).
N == 5
\* Longest theta handed directly to a library transform.
MaxLen == 3
\* Largest rotation count of a pattern in the model.
MaxRot == 2
\* Longest patterns_meta list given to draw_pattern.
MaxMeta == 2
\* Most get_pattern calls made on one registry.
MaxRequests == 2
\* Samples of the path's native parameter taken by svg_path_transform
\* (standard_transforms.py:161 uses 10000).
num_samples == 3

\* ------------------------------------------------------- float64 arithmetic
Fin(v) == [k |-> "fin", v |-> v]
NaN == [k |-> "nan", v |-> 0]
Inf(s) == [k |-> "inf", v |-> s]
\* The real number n (an integer literal of the source).
Lit(n) == Fin(n * Scale)

IsFin(a) == a.k = "fin"
IsNaN(a) == a.k = "nan"
IsInf(a) == a.k = "inf"

Abs(n) == IF n < 0 THEN -n ELSE n
Sgn(n) == IF n > 0 THEN 1 ELSE IF n < 0 THEN -1 ELSE 0
\* n / d rounded to the nearest integer, halves away from zero (d # 0).
Round(n, d) == Sgn(n) * Sgn(d) * ((2 * Abs(n) + Abs(d)) \div (2 * Abs(d)))
\* The sign of a float, for inf arithmetic (zero counts as positive).
FSgn(a) == IF a.v < 0 THEN -1 ELSE 1

fneg(a) == IF IsNaN(a) THEN NaN ELSE [a EXCEPT !.v = -a.v]

fadd(a, b) ==
  IF IsNaN(a) \/ IsNaN(b) THEN NaN
  ELSE IF IsInf(a) /\ IsInf(b) THEN (IF a.v = b.v THEN a ELSE NaN)
  ELSE IF IsInf(a) THEN a
  ELSE IF IsInf(b) THEN b
  ELSE Fin(a.v + b.v)

fsub(a, b) == fadd(a, fneg(b))

fmul(a, b) ==
  IF IsNaN(a) \/ IsNaN(b) THEN NaN
  ELSE IF IsInf(a) \/ IsInf(b)
       THEN (IF (IsFin(a) /\ a.v = 0) \/ (IsFin(b) /\ b.v = 0) THEN NaN
             ELSE Inf(FSgn(a) * FSgn(b)))
  ELSE Fin(Round(a.v * b.v, Scale))

\* numpy true division: a zero divisor gives inf or nan (and a warning), it
\* does not raise.
fdiv(a, b) ==
  IF IsNaN(a) \/ IsNaN(b) THEN NaN
  ELSE IF IsInf(a) THEN (IF IsInf(b) THEN NaN ELSE Inf(FSgn(a) * FSgn(b)))
  ELSE IF IsInf(b) THEN Fin(0)
  ELSE IF b.v = 0 THEN (IF a.v = 0 THEN NaN ELSE Inf(FSgn(a)))
  ELSE Fin(Round(a.v * Scale, b.v))

\* numpy remainder a % b for a finite b > 0: the result lies in [0, b).
\* b = 0 and non-finite operands give nan.
fmod(a, b) ==
  IF ~IsFin(a) \/ ~IsFin(b) THEN NaN
  ELSE IF b.v = 0 THEN NaN
  ELSE IF b.v > 0 THEN Fin(a.v % b.v)
  ELSE Fin(-((-a.v) % (-b.v)))

\* numpy floor division a // b.
ffloordiv(a, b) ==
  IF ~IsFin(a) \/ ~IsFin(b) THEN NaN
  ELSE IF b.v = 0 THEN (IF a.v = 0 THEN NaN ELSE Inf(FSgn(a)))
  ELSE Fin(((a.v * Sgn(b.v)) \div Abs(b.v)) * Scale)

\* Comparisons: every comparison with nan is false.
flt(a, b) ==
  IF IsNaN(a) \/ IsNaN(b) THEN FALSE
  ELSE IF IsInf(a) THEN a.v < 0 /\ ~(IsInf(b) /\ b.v < 0)
  ELSE IF IsInf(b) THEN b.v > 0
  ELSE a.v < b.v

fle(a, b) ==
  IF IsNaN(a) \/ IsNaN(b) THEN FALSE ELSE ~flt(b, a)

\* ------------------------------------------------------------ numpy: angles
\* np.pi / 2, np.pi, 2 * np.pi.
HALF_PI == (355 * Scale) \div 226
PI == 2 * HALF_PI
TWO_PI == 4 * HALF_PI

\* sin on [0, PI] (Bhaskara's rational form: exact at 0, PI/6, PI/2, PI).
SinHalfTurn(t) ==
  Round(16 * t * (PI - t) * Scale, 5 * PI * PI - 4 * t * (PI - t))

\* sin of a finite angle t (fixed point), by reduction to [0, TWO_PI).
SinFx(t) ==
  LET u == t % TWO_PI
  IN IF u <= PI THEN SinHalfTurn(u) ELSE -SinHalfTurn(u - PI)

np_sin(a) == IF IsFin(a) THEN Fin(SinFx(a.v)) ELSE NaN
np_cos(a) == IF IsFin(a) THEN Fin(SinFx(a.v + HALF_PI)) ELSE NaN

\* np.deg2rad: degrees * pi / 180.
np_deg2rad(d) ==
  IF IsFin(d) THEN Fin(Round(d.v * PI, 180 * Scale)) ELSE d

\* np.sqrt of a finite v >= 0.
np_sqrt(a) ==
  IF ~IsFin(a) \/ a.v < 0 THEN NaN
  ELSE Fin(CHOOSE r \in 0..(a.v + Scale) :
             r * r <= a.v * Scale /\ (r + 1) * (r + 1) > a.v * Scale)

\* np.clip(a, lo, hi) = minimum(maximum(a, lo), hi); nan stays nan.
np_clip(a, lo, hi) ==
  IF IsNaN(a) THEN NaN
  ELSE IF flt(a, lo) THEN lo
  ELSE IF flt(hi, a) THEN hi
  ELSE a

\* np.arccos on [-1, 1]: the angle in [0, PI] whose cosine is the argument,
\* the first t at which the cosine (which falls over [0, PI]) has come down
\* to it.
np_arccos(a) ==
  IF ~IsFin(a) \/ a.v < -Scale \/ a.v > Scale THEN NaN
  ELSE IF a.v = -Scale THEN Fin(PI)
  ELSE Fin(CHOOSE t \in 0..PI :
             /\ SinFx(t + HALF_PI) <= a.v
             /\ t > 0 => SinFx(t - 1 + HALF_PI) > a.v)

\* ------------------------------------------------------------ numpy: arrays
\* An array is a sequence of floats.  np.zeros_like(a).
np_zeros_like(a) == [i \in 1..Len(a) |-> Fin(0)]

\* np.linspace without its endpoint: num samples of step stop / num.
np_linspace_open(stop, num) ==
  LET step == fdiv(stop, Lit(num))
  IN [i \in 1..num |-> fmul(Lit(i - 1), step)]

\* np.linspace(0, stop, num): step = stop / (num - 1), sample i is i * step,
\* and the last sample is set to stop itself.
np_linspace(stop, num) ==
  IF num = 1 THEN <<Fin(0)>>
  ELSE LET step == fdiv(stop, Lit(num - 1))
       IN [i \in 1..num |-> IF i = num THEN stop
                             ELSE fmul(Lit(i - 1), step)]

\* np.maximum.accumulate: running maximum; a nan propagates (np.maximum
\* returns nan when either operand is nan).
RECURSIVE RunMax(_, _)
RunMax(a, i) ==
  IF i = 1 THEN a[1]
  ELSE LET m == RunMax(a, i - 1)
       IN IF IsNaN(m) \/ IsNaN(a[i]) THEN NaN
          ELSE IF flt(m, a[i]) THEN a[i] ELSE m

np_maximum_accumulate(a) == [i \in 1..Len(a) |-> RunMax(a, i)]

\* np.interp(q, xp, fp) for one query point: fp[last] right of xp[last],
\* fp[first] left of xp[first]; else, with j the last index whose xp[j] <= q
\* (what the library's binary search finds in a non-decreasing xp), fp[j]
\* when j is the last index or xp[j] = q, and the linear interpolation
\* between j and j + 1 otherwise.
np_interp(q, xp, fp) ==
  LET n == Len(xp)
  IN IF IsNaN(q) THEN NaN
     ELSE IF flt(xp[n], q) THEN fp[n]
     ELSE IF flt(q, xp[1]) THEN fp[1]
     ELSE LET js == {j \in 1..n : fle(xp[j], q)}
          IN IF js = {} THEN NaN
             ELSE LET j == CHOOSE j \in js : \A h \in js : h <= j
                  IN IF j = n \/ xp[j] = q THEN fp[j]
                     ELSE fadd(fmul(fdiv(fsub(fp[j + 1], fp[j]),
                                         fsub(xp[j + 1], xp[j])),
                                    fsub(q, xp[j])),
                               fp[j])

\* --------------------------------------------------- results of a transform
\* A call either returns (x', y') or raises; warned records a line printed
\* to the console before the return or the raise.
Ok(xs, ys) == [err |-> "none", x |-> xs, y |-> ys, warned |-> FALSE]
Raise(e) == [err |-> e, x |-> <<>>, y |-> <<>>, warned |-> FALSE]

\* ----------------------------------------------------- standard_transforms
\* theta[-1]: the last sample.
Last(a) == a[Len(a)]

\* circular_motion putting the circle in place of the incoming points.
circular_motion_from_origin(x, y, theta, radius, speed) ==
  [err |-> "none", warned |-> FALSE,
   x |-> [i \in 1..Len(theta) |->
            fmul(radius, np_cos(fmul(speed, theta[i])))],
   y |-> [i \in 1..Len(theta) |->
            fmul(radius, np_sin(fmul(speed, theta[i])))]]

circular_motion(x, y, theta, radius, speed) ==
  Ok([i \in 1..Len(theta) |->
        fadd(x[i], fmul(radius, np_cos(fmul(speed, theta[i]))))],
     [i \in 1..Len(theta) |->
        fadd(y[i], fmul(radius, np_sin(fmul(speed, theta[i]))))])

\* translate_scale_rotate_transform with its steps in another order: the
\* translation first, so that the offsets are scaled and rotated too.
translate_first_transform(x, y, theta, x_offset, y_offset, scale_x, scale_y, rotation_angle) ==
  LET x_moved == [i \in 1..Len(x) |-> fmul(fadd(x[i], x_offset), scale_x)]
      y_moved == [i \in 1..Len(y) |-> fmul(fadd(y[i], y_offset), scale_y)]
      rotation_radians == np_deg2rad(rotation_angle)
  IN [err |-> "none", warned |-> FALSE,
      x |-> [i \in 1..Len(x) |->
               fsub(fmul(x_moved[i], np_cos(rotation_radians)),
                    fmul(y_moved[i], np_sin(rotation_radians)))],
      y |-> [i \in 1..Len(x) |->
               fadd(fmul(x_moved[i], np_sin(rotation_radians)),
                    fmul(y_moved[i], np_cos(rotation_radians)))]]

translate_scale_rotate_transform(x, y, theta, x_offset, y_offset, scale_x, scale_y, rotation_angle) ==
  LET x_transformed == [i \in 1..Len(x) |-> fmul(x[i], scale_x)]
      y_transformed == [i \in 1..Len(y) |-> fmul(y[i], scale_y)]
      rotation_radians == np_deg2rad(rotation_angle)
      x_rotated == [i \in 1..Len(x) |->
                      fsub(fmul(x_transformed[i], np_cos(rotation_radians)),
                           fmul(y_transformed[i], np_sin(rotation_radians)))]
      y_rotated == [i \in 1..Len(x) |->
                      fadd(fmul(x_transformed[i], np_sin(rotation_radians)),
                           fmul(y_transformed[i], np_cos(rotation_radians)))]
  IN Ok([i \in 1..Len(x) |-> fadd(x_rotated[i], x_offset)],
        [i \in 1..Len(x) |-> fadd(y_rotated[i], y_offset)])

\* The rotation of (x, y) by the per-sample angle phi, shared by the two
\* paper rotations.
Rotated(x, y, phi) ==
  Ok([i \in 1..Len(phi) |->
        fsub(fmul(x[i], np_cos(phi[i])), fmul(y[i], np_sin(phi[i])))],
     [i \in 1..Len(phi) |->
        fadd(fmul(x[i], np_sin(phi[i])), fmul(y[i], np_cos(phi[i])))])

\* paper_rotation turning every sample by the whole angle.
paper_rotation_uniform(x, y, theta, degrees) ==
  IF Len(theta) = 0 THEN [err |-> "IndexError", x |-> <<>>, y |-> <<>>,
                          warned |-> FALSE]
  ELSE [err |-> "none", warned |-> FALSE,
        x |-> [i \in 1..Len(theta) |->
                 fsub(fmul(x[i], np_cos(np_deg2rad(degrees))),
                      fmul(y[i], np_sin(np_deg2rad(degrees))))],
        y |-> [i \in 1..Len(theta) |->
                 fadd(fmul(x[i], np_sin(np_deg2rad(degrees))),
                      fmul(y[i], np_cos(np_deg2rad(degrees))))]]

paper_rotation(x, y, theta, degrees) ==
  IF Len(theta) = 0 THEN Raise("IndexError")
  ELSE LET total_rotation_radians == np_deg2rad(degrees)
           theta_max == Last(theta)
           phi == [i \in 1..Len(theta) |->
                     fmul(fdiv(theta[i], theta_max), total_rotation_radians)]
       IN Rotated(x, y, phi)

mystery_lines(x, y, theta, spiral_rate, frequency) ==
  LET amplitude == spiral_rate
      r == [i \in 1..Len(theta) |->
              fadd(spiral_rate,
                   fmul(amplitude, np_sin(fmul(frequency, theta[i]))))]
  IN Ok([i \in 1..Len(theta) |-> fadd(x[i], fmul(r[i], np_sin(theta[i])))],
        [i \in 1..Len(theta) |-> fadd(y[i], fmul(r[i], np_sin(theta[i])))])

linear_translation_transform(x, y, theta, total_distance, movement_angle_degrees) ==
  IF Len(theta) = 0 THEN Raise("IndexError")
  ELSE LET movement_angle == np_deg2rad(movement_angle_degrees)
           theta_max == Last(theta)
           p == [i \in 1..Len(theta) |-> fdiv(theta[i], theta_max)]
           delta_x == [i \in 1..Len(theta) |->
                         fmul(fmul(p[i], total_distance),
                              np_cos(movement_angle))]
           delta_y == [i \in 1..Len(theta) |->
                         fmul(fmul(p[i], total_distance),
                              np_sin(movement_angle))]
       IN Ok([i \in 1..Len(theta) |-> fadd(x[i], delta_x[i])],
             [i \in 1..Len(theta) |-> fadd(y[i], delta_y[i])])

\* rotation_rate_function is a string ([kind |-> "str", name |-> ...]), a
\* callable ([kind |-> "callable", fn |-> ..., value |-> ...]) or anything
\* else ([kind |-> "other"], for instance None or a number).
RateNames == {"linear", "quadratic", "sinusoidal"}

\* What a custom callable returns for one element p of normalized_theta:
\* "twice" is lambda p: 2 * p, "negate" is lambda p: -p, and "const" returns
\* its value whatever p is.
rate_call(f, p) ==
  CASE f.fn = "twice" -> fmul(Lit(2), p)
    [] f.fn = "negate" -> fneg(p)
    [] f.fn = "const" -> f.value

\* The callable branch: phi_normalized = np.clip(f(normalized_theta), 0, 1).
phi_normalized(theta, rate) ==
  [i \in 1..Len(theta) |->
     np_clip(rate_call(rate, fdiv(theta[i], Last(theta))), Lit(0), Lit(1))]

\* paper_rotation_transform_non_linear taking every unrecognised value for
\* 'linear' instead of raising.
paper_rotation_transform_non_linear_default(x, y, theta, degrees, rate) ==
  IF Len(theta) = 0 THEN Raise("IndexError")
  ELSE Rotated(x, y, [i \in 1..Len(theta) |->
                        fmul(fdiv(theta[i], Last(theta)),
                             np_deg2rad(degrees))])

paper_rotation_transform_non_linear(x, y, theta, degrees, rate) ==
  IF Len(theta) = 0 THEN Raise("IndexError")
  ELSE
  LET total_rotation_radians == np_deg2rad(degrees)
      theta_max == Last(theta)
      normalized_theta == [i \in 1..Len(theta) |-> fdiv(theta[i], theta_max)]
      f == rate
  IN IF f.kind = "str" /\ f.name = "linear"
     THEN Rotated(x, y, [i \in 1..Len(theta) |->
                          fmul(normalized_theta[i], total_rotation_radians)])
     ELSE IF f.kind = "str" /\ f.name = "quadratic"
     THEN Rotated(x, y, [i \in 1..Len(theta) |->
                          fmul(fmul(normalized_theta[i], normalized_theta[i]),
                               total_rotation_radians)])
     ELSE IF f.kind = "str" /\ f.name = "sinusoidal"
     THEN Rotated(x, y, [i \in 1..Len(theta) |->
                          fmul(np_sin(fdiv(fmul(normalized_theta[i], Fin(PI)),
                                           Lit(2))),
                               total_rotation_radians)])
     ELSE IF f.kind = "callable"
     THEN Rotated(x, y, [i \in 1..Len(theta) |->
                          fmul(phi_normalized(theta, f)[i],
                               total_rotation_radians)])
     ELSE Raise("ValueError")

\* The path provider (svgpathtools.Path) as svg_path_transform sees it:
\* svg_path.total is length(), svg_path.cum[j] is length(0, t_vals[j]) and
\* (svg_path.px[j], svg_path.py[j]) is point(t_vals[j]); between two samples
\* the path is the straight segment joining them.
t_vals == np_linspace(Lit(1), num_samples)

svg_point(svg_path, t) ==
  [re |-> np_interp(t, t_vals, svg_path.px),
   im |-> np_interp(t, t_vals, svg_path.py)]

\* The arclength table given to np.interp: the running maximum of the
\* sampled lengths, its last entry then overwritten with the total length.
cumulative_lengths(svg_path) ==
  LET acc == np_maximum_accumulate(svg_path.cum)
  IN [acc EXCEPT ![Len(acc)] = svg_path.total]

\* svg_path_transform keeping the incoming coordinates, scaled and offset,
\* instead of replacing them with the points of the path.
svg_path_transform_keeping_input(x, y, theta, svg_path, scale, offset_x, offset_y) ==
  IF Len(theta) = 0 THEN Raise("IndexError")
  ELSE Ok([i \in 1..Len(x) |-> fadd(fmul(x[i], scale), offset_x)],
          [i \in 1..Len(y) |-> fadd(fmul(y[i], scale), offset_y)])

\* svg_path_transform evaluating the path at every entry of t_vals instead
\* of at the interpolated t_values.
svg_path_transform_all_samples(x, y, theta, svg_path, scale, offset_x, offset_y) ==
  IF Len(theta) = 0 THEN Raise("IndexError")
  ELSE
  LET points == [j \in 1..Len(t_vals) |-> svg_point(svg_path, t_vals[j])]
  IN Ok([i \in 1..Len(points) |-> fadd(fmul(points[i].re, scale), offset_x)],
        [i \in 1..Len(points) |-> fadd(fmul(points[i].im, scale), offset_y)])

svg_path_transform(x, y, theta, svg_path, scale, offset_x, offset_y) ==
  IF Len(theta) = 0 THEN Raise("IndexError")
  ELSE
  LET theta_normalized == [i \in 1..Len(theta) |->
                             fdiv(theta[i], Last(theta))]
      total_length == svg_path.total
      distances == [i \in 1..Len(theta) |->
                      fmul(theta_normalized[i], total_length)]
      t_values == [i \in 1..Len(distances) |->
                     np_interp(distances[i], cumulative_lengths(svg_path),
                               t_vals)]
      points == [i \in 1..Len(t_values) |-> svg_point(svg_path, t_values[i])]
  IN Ok([i \in 1..Len(points) |-> fadd(fmul(points[i].re, scale), offset_x)],
        [i \in 1..Len(points) |-> fadd(fmul(points[i].im, scale), offset_y)])

\* ------------------------------------------------------- spiral_transforms
spiral_transform(x, y, theta, spiral_rate, a, b) ==
  LET r == [i \in 1..Len(theta) |->
              fadd(Lit(1), fmul(spiral_rate, theta[i]))]
  IN Ok([i \in 1..Len(theta) |->
           fadd(x[i], fmul(fmul(a, r[i]), np_cos(theta[i])))],
        [i \in 1..Len(theta) |->
           fadd(y[i], fmul(fmul(b, r[i]), np_sin(theta[i])))])

spiral_oscillator(x, y, theta, spiral_rate, frequency, const, a, b) ==
  LET amplitude == spiral_rate
      r == [i \in 1..Len(theta) |->
              fadd(spiral_rate,
                   fmul(amplitude, np_sin(fmul(frequency, theta[i]))))]
  IN Ok([i \in 1..Len(theta) |->
           fadd(x[i], fmul(fmul(a, fadd(r[i], const)), np_cos(theta[i])))],
        [i \in 1..Len(theta) |->
           fadd(y[i], fmul(fmul(b, fadd(r[i], const)), np_sin(theta[i])))])

\* r = start_rate * theta + (delta_rate / (2 * theta_max)) * theta ** 2, the
\* radius shared by the variable-rate spirals.  theta_max is a numpy float:
\* a zero theta_max gives inf or nan, it does not raise.
\* variable_radius without the factor delta_rate in its quadratic term.
variable_radius_no_delta(theta, start_rate, end_rate) ==
  [i \in 1..Len(theta) |->
     fadd(fmul(start_rate, theta[i]),
          fmul(fdiv(Lit(1), fmul(Lit(2), theta[Len(theta)])),
               fmul(theta[i], theta[i])))]

variable_radius(theta, start_rate, end_rate) ==
  LET theta_max == Last(theta)
      delta_rate == fsub(end_rate, start_rate)
  IN [i \in 1..Len(theta) |->
        fadd(fmul(start_rate, theta[i]),
             fmul(fdiv(delta_rate, fmul(Lit(2), theta_max)),
                  fmul(theta[i], theta[i])))]

variable_spiral_transform(x, y, theta, start_rate, end_rate, a, b) ==
  IF Len(theta) = 0 THEN Raise("IndexError")
  ELSE LET r == variable_radius(theta, start_rate, end_rate)
       IN Ok([i \in 1..Len(theta) |->
                fadd(x[i], fmul(fmul(a, r[i]), np_cos(theta[i])))],
             [i \in 1..Len(theta) |->
                fadd(y[i], fmul(fmul(b, r[i]), np_sin(theta[i])))])

\* (1 - t) * p + t * q
Lerp(t, p, q) == fadd(fmul(fsub(Lit(1), t), p), fmul(t, q))

variable_spiral_triangle_transform(x, y, theta, start_rate, end_rate, side1, side2, side3) ==
  IF Len(theta) = 0 THEN Raise("IndexError")
  ELSE IF Len(theta) > Len(x) \/ Len(theta) > Len(y) THEN Raise("IndexError")
  ELSE
  LET vertex1 == <<Lit(0), Lit(1)>>
      vertex2 == <<fdiv(fmul(fneg(side1), np_sqrt(Lit(3))), Lit(2)),
                   fmul(fneg(fdiv(Lit(1), Lit(2))), side1)>>
      vertex3 == <<fdiv(fmul(side3, np_sqrt(Lit(3))), Lit(2)),
                   fmul(fneg(fdiv(Lit(1), Lit(2))), side3)>>
      r == variable_radius(theta, start_rate, end_rate)
      third == fdiv(fmul(Lit(2), Fin(PI)), Lit(3))
      two_thirds == fdiv(fmul(Lit(4), Fin(PI)), Lit(3))
      point(i, c) ==
        LET norm_angle == fmod(theta[i], Fin(TWO_PI))
        IN IF flt(norm_angle, third)
           THEN Lerp(fdiv(norm_angle, third), vertex1[c], vertex2[c])
           ELSE IF flt(norm_angle, two_thirds)
           THEN Lerp(fdiv(fsub(norm_angle, third), third),
                     vertex2[c], vertex3[c])
           ELSE Lerp(fdiv(fsub(norm_angle, two_thirds), third),
                     vertex3[c], vertex1[c])
      x_transformed == [i \in 1..Len(x) |->
                          IF i <= Len(theta) THEN fmul(r[i], point(i, 1))
                          ELSE Fin(0)]
      y_transformed == [i \in 1..Len(y) |->
                          IF i <= Len(theta) THEN fmul(r[i], point(i, 2))
                          ELSE Fin(0)]
  IN Ok(x_transformed, y_transformed)

\* The vertex construction of the n-gon spirals (python i = 1 .. n - 1):
\* the law of cosines on three consecutive side lengths gives the turn at
\* each vertex.  The side lengths are Python numbers, so a zero product
\* 2 * side_a * side_b raises ZeroDivisionError.
RECURSIVE ngon_vertices(_, _)
ngon_vertices(side_lengths, i) ==
  IF i = 0
  THEN [vertices |-> << <<Lit(0), Lit(1)>> >>,
        current_angle |-> Fin(HALF_PI), err |-> "none"]
  ELSE
  LET prev == ngon_vertices(side_lengths, i - 1)
      n == Len(side_lengths)
      side_a == side_lengths[i]
      side_b == side_lengths[i + 1]
      side_c == side_lengths[((i + 1) % n) + 1]
  IN IF prev.err # "none" THEN prev
     ELSE IF side_a.v = 0 \/ side_b.v = 0
     THEN [prev EXCEPT !.err = "ZeroDivisionError"]
     ELSE
     LET cos_angle == fdiv(fsub(fadd(fmul(side_a, side_a),
                                     fmul(side_b, side_b)),
                                fmul(side_c, side_c)),
                           fmul(fmul(Lit(2), side_a), side_b))
         internal_angle == np_arccos(np_clip(cos_angle, Lit(-1), Lit(1)))
         current_angle == fsub(prev.current_angle, internal_angle)
         current_vertex == prev.vertices[Len(prev.vertices)]
         next_vertex ==
           <<fadd(current_vertex[1], fmul(side_b, np_cos(current_angle))),
             fadd(current_vertex[2], fmul(side_b, np_sin(current_angle)))>>
     IN [vertices |-> Append(prev.vertices, next_vertex),
         current_angle |-> current_angle, err |-> "none"]

\* One sample of the n-gon loop.  side_index = int(norm_angle //
\* segment_angle) and t = (norm_angle % segment_angle) / segment_angle with
\* segment_angle = 2 * pi / n, taken on norm_angle * n / (2 * pi) without
\* rounding the segment angle first.
ngon_sample(vertices, n, angle, ri) ==
  LET norm_angle == fmod(angle, Fin(TWO_PI))
  IN IF n = 0 THEN [err |-> "ZeroDivisionError"]
     ELSE IF ~IsFin(norm_angle) THEN [err |-> "ValueError"]
     ELSE
     LET side_index == (norm_angle.v * n) \div TWO_PI
         t == Fin(Round(((norm_angle.v * n) % TWO_PI) * Scale, TWO_PI))
     IN IF side_index >= Len(vertices) THEN [err |-> "IndexError"]
        ELSE
        LET vertex_start == vertices[side_index + 1]
            vertex_end == vertices[((side_index + 1) % n) + 1]
        IN [err |-> "none",
            x |-> fmul(Lerp(t, vertex_start[1], vertex_end[1]), ri),
            y |-> fmul(Lerp(t, vertex_start[2], vertex_end[2]), ri)]

variable_spiral_regular_ngon_transform(x, y, theta, start_rate, end_rate, side_lengths) ==
  IF Len(theta) = 0 THEN Raise("IndexError")
  ELSE
  LET n == Len(side_lengths)
      r == variable_radius(theta, start_rate, end_rate)
      built == ngon_vertices(side_lengths, IF n = 0 THEN 0 ELSE n - 1)
  IN IF built.err # "none" THEN Raise(built.err)
     ELSE
     LET sample == [i \in 1..Len(theta) |->
                      ngon_sample(built.vertices, n, theta[i], r[i])]
         bad == {i \in 1..Len(theta) : sample[i].err # "none"}
     IN IF bad # {}
        THEN Raise(sample[CHOOSE i \in bad : \A j \in bad : i <= j].err)
        ELSE IF Len(theta) > Len(x) \/ Len(theta) > Len(y)
        THEN Raise("IndexError")
        ELSE Ok([i \in 1..Len(x) |->
                   IF i <= Len(theta) THEN sample[i].x ELSE Fin(0)],
                [i \in 1..Len(y) |->
                   IF i <= Len(theta) THEN sample[i].y ELSE Fin(0)])

\* The same construction, after printing its warning.
variable_spiral_ngon_transform(x, y, theta, start_rate, end_rate, side_lengths) ==
  [variable_spiral_regular_ngon_transform(x, y, theta, start_rate, end_rate,
                                          side_lengths)
   EXCEPT !.warned = TRUE]

\* --------------------------------------------------- spirograph_transforms
\* R, r, d, a, b are Python numbers: (R - r) / r and a / r raise
\* ZeroDivisionError when r is zero.
spirograph_transform(x, y, theta, R, r, d, mode) ==
  IF mode = "hypotrochoid"
  THEN IF r.v = 0 THEN Raise("ZeroDivisionError")
       ELSE
       LET ratio == fdiv(fsub(R, r), r)
       IN Ok([i \in 1..Len(theta) |->
                fadd(fadd(x[i], fmul(fsub(R, r), np_cos(theta[i]))),
                     fmul(d, np_cos(fmul(ratio, theta[i]))))],
             [i \in 1..Len(theta) |->
                fsub(fadd(y[i], fmul(fsub(R, r), np_sin(theta[i]))),
                     fmul(d, np_sin(fmul(ratio, theta[i]))))])
  ELSE IF mode = "epitrochoid"
  THEN IF r.v = 0 THEN Raise("ZeroDivisionError")
       ELSE
       LET ratio == fdiv(fadd(R, r), r)
       IN Ok([i \in 1..Len(theta) |->
                fsub(fadd(x[i], fmul(fadd(R, r), np_cos(theta[i]))),
                     fmul(d, np_cos(fmul(ratio, theta[i]))))],
             [i \in 1..Len(theta) |->
                fsub(fadd(y[i], fmul(fadd(R, r), np_sin(theta[i]))),
                     fmul(d, np_sin(fmul(ratio, theta[i]))))])
  ELSE Raise("ValueError")

elliptical_spirograph_transform(x, y, theta, R, r, d, a, b, mode) ==
  IF mode = "hypotrochoid"
  THEN IF r.v = 0 THEN Raise("ZeroDivisionError")
       ELSE
       LET ratio == fdiv(fsub(R, r), r)
       IN Ok([i \in 1..Len(theta) |->
                fadd(fadd(x[i], fmul(fsub(R, r), np_cos(theta[i]))),
                     fmul(fmul(d, fdiv(a, r)),
                          np_cos(fmul(ratio, theta[i]))))],
             [i \in 1..Len(theta) |->
                fsub(fadd(y[i], fmul(fsub(R, r), np_sin(theta[i]))),
                     fmul(fmul(d, fdiv(b, r)),
                          np_sin(fmul(ratio, theta[i]))))])
  ELSE IF mode = "epitrochoid"
  THEN IF r.v = 0 THEN Raise("ZeroDivisionError")
       ELSE
       LET ratio == fdiv(fadd(R, r), r)
       IN Ok([i \in 1..Len(theta) |->
                fsub(fadd(x[i], fmul(fadd(R, r), np_cos(theta[i]))),
                     fmul(fmul(d, fdiv(a, r)),
                          np_cos(fmul(ratio, theta[i]))))],
             [i \in 1..Len(theta) |->
                fsub(fadd(y[i], fmul(fadd(R, r), np_sin(theta[i]))),
                     fmul(fmul(d, fdiv(b, r)),
                          np_sin(fmul(ratio, theta[i]))))])
  ELSE Raise("ValueError")

\* The circumradius is computed before the mode is looked at, and with the
\* epicyclogon formula for every mode but 'hypocyclogon'.  np.pi / n is a
\* division of Python numbers (ZeroDivisionError for n = 0); the quotient by
\* 1 - sin(pi / n) is numpy's (inf or nan for a zero divisor).
polygon_radius(R, n, mode) ==
  LET s == np_sin(fdiv(Fin(PI), n))
  IN IF mode = "hypocyclogon"
     THEN fmul(R, fdiv(s, fadd(Lit(1), s)))
     ELSE fmul(R, fdiv(s, fsub(Lit(1), s)))

polygon_spirograph_transform(x, y, theta, R, n, d, mode) ==
  IF n.v = 0 THEN Raise("ZeroDivisionError")
  ELSE
  LET r == polygon_radius(R, n, mode)
      turn == fdiv(fmul(Lit(2), Fin(PI)), n)
  IN IF mode = "hypocyclogon"
     THEN LET rotations == fdiv(fsub(R, r), r)
              psi == [i \in 1..Len(theta) |-> fmul(rotations, theta[i])]
              phi == [i \in 1..Len(theta) |->
                        fsub(fdiv(fmul(theta[i], fsub(R, r)), r),
                             fmul(psi[i], turn))]
          IN Ok([i \in 1..Len(theta) |->
                   fadd(fadd(x[i], fmul(fsub(R, r), np_cos(theta[i]))),
                        fmul(d, np_cos(phi[i])))],
                [i \in 1..Len(theta) |->
                   fadd(fadd(y[i], fmul(fsub(R, r), np_sin(theta[i]))),
                        fmul(d, np_sin(phi[i])))])
     ELSE IF mode = "epicyclogon"
     THEN LET rotations == fdiv(fadd(R, r), r)
              psi == [i \in 1..Len(theta) |-> fmul(rotations, theta[i])]
              phi == [i \in 1..Len(theta) |->
                        fsub(fdiv(fmul(theta[i], fadd(R, r)), r),
                             fmul(psi[i], turn))]
          IN Ok([i \in 1..Len(theta) |->
                   fadd(fadd(x[i], fmul(fadd(R, r), np_cos(theta[i]))),
                        fmul(d, np_cos(phi[i])))],
                [i \in 1..Len(theta) |->
                   fadd(fadd(y[i], fmul(fadd(R, r), np_sin(theta[i]))),
                        fmul(d, np_sin(phi[i])))])
     ELSE Raise("ValueError")

\* side_xy with the right side running upwards from the bottom.
side_xy_right_upward(side, d, rect_width, rect_height) ==
  LET half_w == fdiv(rect_width, Lit(2))
      half_h == fdiv(rect_height, Lit(2))
  IN CASE side = 1 -> [x |-> fadd(fneg(half_w), d), y |-> half_h]
       [] side = 2 -> [x |-> half_w,
                       y |-> fadd(fneg(half_h), fsub(d, rect_width))]
       [] side = 3 -> [x |-> fsub(half_w,
                                  fsub(d, fadd(rect_width, rect_height))),
                       y |-> fneg(half_h)]
       [] side = 4 -> [x |-> fneg(half_w),
                       y |-> fadd(fneg(half_h),
                                  fsub(d, fadd(fmul(Lit(2), rect_width),
                                               rect_height)))]

\* The gear centre at distance d along the perimeter, by the formula of one
\* side (1 top, 2 right, 3 bottom, 4 left).
side_xy(side, d, rect_width, rect_height) ==
  LET half_w == fdiv(rect_width, Lit(2))
      half_h == fdiv(rect_height, Lit(2))
  IN CASE side = 1 -> [x |-> fadd(fneg(half_w), d), y |-> half_h]
       [] side = 2 -> [x |-> half_w,
                       y |-> fsub(half_h, fsub(d, rect_width))]
       [] side = 3 -> [x |-> fsub(half_w,
                                  fsub(d, fadd(rect_width, rect_height))),
                       y |-> fneg(half_h)]
       [] side = 4 -> [x |-> fneg(half_w),
                       y |-> fadd(fneg(half_h),
                                  fsub(d, fadd(fmul(Lit(2), rect_width),
                                               rect_height)))]

\* The gear centre on the rectangle's perimeter at one angle, and the side
\* the if / elif chain selects for it.
gear_center(angle, rect_width, rect_height, gear_radius) ==
  LET perimeter == fmul(Lit(2), fadd(rect_width, rect_height))
      distance_along_perimeter == fmod(fmul(gear_radius, angle), perimeter)
      side == IF flt(distance_along_perimeter, rect_width) THEN 1
              ELSE IF flt(distance_along_perimeter,
                          fadd(rect_width, rect_height)) THEN 2
              ELSE IF flt(distance_along_perimeter,
                          fadd(fmul(Lit(2), rect_width), rect_height)) THEN 3
              ELSE 4
      at == side_xy(side, distance_along_perimeter, rect_width, rect_height)
  IN [side |-> side, dist |-> distance_along_perimeter,
      x |-> at.x, y |-> at.y]

spirograph_rectangle_transform(x, y, theta, rect_width, rect_height, gear_radius, tracing_point_dist) ==
  IF Len(theta) > Len(x) \/ Len(theta) > Len(y) THEN Raise("IndexError")
  ELSE
  LET gear_rotation(i) ==
        fdiv(fmul(theta[i], fadd(rect_width, rect_height)), gear_radius)
      c(i) == gear_center(theta[i], rect_width, rect_height, gear_radius)
  IN Ok([i \in 1..Len(x) |->
           IF i <= Len(theta)
           THEN fadd(x[i], fadd(c(i).x, fmul(tracing_point_dist,
                                             np_cos(gear_rotation(i)))))
           ELSE x[i]],
        [i \in 1..Len(y) |->
           IF i <= Len(theta)
           THEN fadd(y[i], fadd(c(i).y, fmul(tracing_point_dist,
                                             np_sin(gear_rotation(i)))))
           ELSE y[i]])

\* ---------------------------------------------------------------- patterns
\* transform(transform_func, *args, **kwargs): a bound transform is a record
\* of the function's name and its bound parameters; calling it supplies
\* (x, y, theta).
transform_call(t, x, y, theta) ==
  CASE t.func = "circular_motion" ->
         circular_motion(x, y, theta, t.radius, t.speed)
    [] t.func = "translate_scale_rotate_transform" ->
         translate_scale_rotate_transform(x, y, theta, t.x_offset, t.y_offset,
                                          t.scale_x, t.scale_y,
                                          t.rotation_angle)
    [] t.func = "paper_rotation" ->
         paper_rotation(x, y, theta, t.degrees)
    [] t.func = "mystery_lines" ->
         mystery_lines(x, y, theta, t.spiral_rate, t.frequency)
    [] t.func = "linear_translation_transform" ->
         linear_translation_transform(x, y, theta, t.total_distance,
                                      t.movement_angle_degrees)
    [] t.func = "paper_rotation_transform_non_linear" ->
         paper_rotation_transform_non_linear(
           x, y, theta, t.degrees, t.rotation_rate_function)
    [] t.func = "svg_path_transform" ->
         svg_path_transform(x, y, theta, t.svg_path, t.scale, t.offset_x,
                            t.offset_y)
    [] t.func = "spiral_transform" ->
         spiral_transform(x, y, theta, t.spiral_rate, t.a, t.b)
    [] t.func = "spiral_oscillator" ->
         spiral_oscillator(x, y, theta, t.spiral_rate, t.frequency, t.const,
                           t.a, t.b)
    [] t.func = "variable_spiral_transform" ->
         variable_spiral_transform(x, y, theta, t.start_rate, t.end_rate,
                                   t.a, t.b)
    [] t.func = "variable_spiral_triangle_transform" ->
         variable_spiral_triangle_transform(x, y, theta, t.start_rate,
                                            t.end_rate, t.side1, t.side2,
                                            t.side3)
    [] t.func = "variable_spiral_regular_ngon_transform" ->
         variable_spiral_regular_ngon_transform(x, y, theta, t.start_rate,
                                                t.end_rate, t.side_lengths)
    [] t.func = "variable_spiral_ngon_transform" ->
         variable_spiral_ngon_transform(x, y, theta, t.start_rate, t.end_rate,
                                        t.side_lengths)
    [] t.func = "spirograph_transform" ->
         spirograph_transform(x, y, theta, t.R, t.r, t.d, t.mode)
    [] t.func = "elliptical_spirograph_transform" ->
         elliptical_spirograph_transform(x, y, theta, t.R, t.r, t.d, t.a, t.b,
                                         t.mode)
    [] t.func = "polygon_spirograph_transform" ->
         polygon_spirograph_transform(x, y, theta, t.R, t.n, t.d, t.mode)
    [] t.func = "spirograph_rectangle_transform" ->
         spirograph_rectangle_transform(x, y, theta, t.rect_width,
                                        t.rect_height, t.gear_radius,
                                        t.tracing_point_dist)

\* ------------------------------------------- which arrays a call writes to
\* np.copy taken for a rebinding (x_transformed = x): the argument itself.
np_copy_alias(arg) == arg

\* The array object np.copy(arg) returns: a new one, not the argument.
np_copy_buffer(arg) == "fresh"

\* The array object np.zeros_like(arg) returns: a new one.
np_zeros_like_buffer(arg) == "fresh"

\* The array objects a transform assigns into by index or in place
\* (a[i] = ..., a[i] += ..., a[i] *= ...); every other statement of the
\* library builds a new array from an expression.
element_writes(func) ==
  CASE func = "spirograph_rectangle_transform" ->
         {np_copy_buffer("x"), np_copy_buffer("y")}
    [] func \in {"variable_spiral_triangle_transform",
                 "variable_spiral_regular_ngon_transform",
                 "variable_spiral_ngon_transform"} ->
         {np_zeros_like_buffer("x"), np_zeros_like_buffer("y")}
    [] func = "svg_path_transform" -> {"fresh"}
    [] OTHER -> {}

\* The caller's x, y and theta after the call: an argument that was
\* assigned into holds what was written, the others what they held.
caller_arrays(t, x, y, theta, res) ==
  LET written == IF res.err = "none" THEN element_writes(t.func) ELSE {}
  IN [x |-> IF "x" \in written THEN res.x ELSE x,
      y |-> IF "y" \in written THEN res.y ELSE y,
      theta |-> IF "theta" \in written THEN res.x ELSE theta]

\* -------------------------------------------------- the inputs of the model
Str(name) == [kind |-> "str", name |-> name]
Callable(fn, value) == [kind |-> "callable", fn |-> fn, value |-> value]
NotAFunction == [kind |-> "other"]

\* Paths of the path provider: every table of sampled lengths over a few
\* values (length(0, 0) = 0), with either total length; the sampled points
\* advance along x with the sampled length and along y with the sample.
SvgPaths ==
  {[total |-> total, cum |-> cum, px |-> cum,
    py |-> [j \in 1..num_samples |-> Lit(j - 1)]] :
     total \in {Lit(2), Lit(4)},
     cum \in {c \in [1..num_samples -> {Lit(0), Lit(2), Lit(4)}] :
                c[1] = Lit(0)}}

SpirographParams == {<<Lit(5), Lit(1), Lit(2)>>, <<Lit(5), Lit(0), Lit(2)>>}

\* Bound transforms handed to the library directly.
LibTransforms ==
  {[func |-> "circular_motion", radius |-> Lit(10), speed |-> sp] :
     sp \in {Lit(1), Lit(2)}}
  \cup
  {[func |-> "translate_scale_rotate_transform", x_offset |-> o[1],
    y_offset |-> o[2], scale_x |-> sc[1], scale_y |-> sc[2],
    rotation_angle |-> an] :
     o \in {<<Lit(0), Lit(0)>>, <<Lit(3), Lit(-1)>>},
     sc \in {<<Lit(1), Lit(1)>>, <<Lit(2), Lit(3)>>},
     an \in {Lit(0), Lit(90)}}
  \cup
  {[func |-> "paper_rotation", degrees |-> dg] : dg \in {Lit(90), Lit(360)}}
  \cup
  {[func |-> "mystery_lines", spiral_rate |-> Lit(2), frequency |-> Lit(1)]}
  \cup
  {[func |-> "linear_translation_transform", total_distance |-> Lit(4),
    movement_angle_degrees |-> an] : an \in {Lit(0), Lit(90)}}
  \cup
  {[func |-> "paper_rotation_transform_non_linear", degrees |-> Lit(90),
    rotation_rate_function |-> f] :
     f \in {Str(nm) : nm \in RateNames \cup {"bogus", "Linear", "cubic"}}
          \cup {NotAFunction}
          \cup {Callable("twice", Lit(0)), Callable("negate", Lit(0))}
          \cup {Callable("const", v) :
                  v \in {Fin(Scale \div 2), Lit(3), Lit(-1), NaN, Inf(1),
                         Inf(-1)}}}
  \cup
  {[func |-> "svg_path_transform", svg_path |-> sp, scale |-> Lit(1),
    offset_x |-> Lit(0), offset_y |-> Lit(0)] : sp \in SvgPaths}
  \cup
  {[func |-> "spiral_transform", spiral_rate |-> Lit(1), a |-> Lit(1),
    b |-> Lit(1)]}
  \cup
  {[func |-> "spiral_oscillator", spiral_rate |-> Lit(3),
    frequency |-> Lit(2), const |-> Lit(-1), a |-> Lit(1), b |-> Lit(1)]}
  \cup
  {[func |-> "variable_spiral_transform", start_rate |-> sr, end_rate |-> er,
    a |-> Lit(1), b |-> Lit(1)] :
     sr \in {Lit(0), Lit(1)}, er \in {Lit(0), Lit(2)}}
  \cup
  {[func |-> "variable_spiral_triangle_transform", start_rate |-> Lit(1),
    end_rate |-> Lit(2), side1 |-> Lit(1), side2 |-> Lit(3),
    side3 |-> Lit(3)]}
  \cup
  {[func |-> f, start_rate |-> Lit(1), end_rate |-> Lit(2),
    side_lengths |-> sl] :
     f \in {"variable_spiral_regular_ngon_transform",
            "variable_spiral_ngon_transform"},
     sl \in {<<Lit(3), Lit(3), Lit(3)>>,
             <<Lit(1), Lit(3), Lit(3), Lit(3), Lit(3)>>,
             <<Lit(1), Lit(1), Lit(5)>>,
             <<Lit(0), Lit(3), Lit(3)>>,
             <<Lit(2)>>,
             <<>>}}
  \cup
  {[func |-> "spirograph_transform", R |-> q[1], r |-> q[2], d |-> q[3],
    mode |-> m] :
     q \in SpirographParams,
     m \in {"hypotrochoid", "epitrochoid", "bogus", "hypocyclogon"}}
  \cup
  {[func |-> "elliptical_spirograph_transform", R |-> q[1], r |-> q[2],
    d |-> q[3], a |-> Lit(2), b |-> Lit(1), mode |-> m] :
     q \in SpirographParams,
     m \in {"hypotrochoid", "epitrochoid", "bogus", "hypocyclogon"}}
  \cup
  {[func |-> "polygon_spirograph_transform", R |-> Lit(5), n |-> n,
    d |-> Lit(2), mode |-> m] :
     n \in {Lit(0), Lit(2), Lit(4)},
     m \in {"hypocyclogon", "epicyclogon", "bogus", "hypotrochoid"}}
  \cup
  {[func |-> "spirograph_rectangle_transform", rect_width |-> Lit(4),
    rect_height |-> Lit(2), gear_radius |-> g,
    tracing_point_dist |-> Lit(1)] : g \in {Lit(1), Lit(0), Lit(3), Lit(7)}}

\* Angles a theta given directly to a transform is made of.
ThetaVals == {Fin(0), Fin(HALF_PI), Fin(TWO_PI + (Scale \div 2))}
Thetas == UNION {[1..n -> ThetaVals] : n \in 1..MaxLen}

\* Incoming coordinates: the canvas origin, or a ramp.
Coords(n, fill) ==
  IF fill = "zeros"
  THEN [x |-> [i \in 1..n |-> Fin(0)], y |-> [i \in 1..n |-> Fin(0)]]
  ELSE [x |-> [i \in 1..n |-> Lit(i)], y |-> [i \in 1..n |-> Lit(-2 * i)]]

\* ------------------------------------------------------------------- state
VARIABLES
  call,           \* library call: the bound transform and its (x, y, theta)
  ret,            \* what the library call returned or raised
  patterns_meta,  \* draw_pattern: the list of entries it was given
  pc,             \* draw_pattern: where control is
  mi,             \* draw_pattern: entries taken from the list so far
  k,              \* draw_pattern: transforms of the entry applied so far
  theta, x, y,    \* draw_pattern: the locals of the loop body
  canvas,         \* the plt.plot calls made: one polyline each
  raised,         \* the exception that left draw_pattern ("none" if none)
  trace,          \* the calls draw_pattern has made, in order
  svg_file,       \* what "single_vector.svg" is on disk
  reg_pc,         \* Patterns(): where the constructor is
  built,          \* Patterns(): values of the dict literal evaluated so far
  patterns,       \* self.patterns
  reg_raised,     \* the exception that left Patterns() ("none" if none)
  got             \* the get_pattern calls made and what each returned

libVars == <<call, ret>>
drawVars == <<patterns_meta, pc, mi, k, theta, x, y, canvas, raised, trace>>
regVars == <<svg_file, reg_pc, built, patterns, reg_raised, got>>
vars == <<call, ret, patterns_meta, pc, mi, k, theta, x, y, canvas, raised,
          trace, svg_file, reg_pc, built, patterns, reg_raised, got>>

Pending == [err |-> "pending", x |-> <<>>, y |-> <<>>, warned |-> FALSE]

\* The state of the part of the program a specification leaves alone.
NoCall == [t |-> [func |-> "none"], theta |-> <<>>, x |-> <<>>, y |-> <<>>]
LibIdle == call = NoCall /\ ret = Pending
DrawIdle ==
  /\ patterns_meta = <<>> /\ pc = "idle" /\ mi = 0 /\ k = 0
  /\ theta = <<>> /\ x = <<>> /\ y = <<>>
  /\ canvas = <<>> /\ raised = "none" /\ trace = <<>>
RegIdle ==
  /\ svg_file = "ok" /\ reg_pc = "idle" /\ built = 0
  /\ patterns = <<>> /\ reg_raised = "none" /\ got = <<>>

\* --------------------------------------------------- one call of a transform
LibInit ==
  /\ call \in {[t |-> t, theta |-> th, x |-> Coords(Len(th), fill).x,
                y |-> Coords(Len(th), fill).y] :
                 t \in LibTransforms, th \in Thetas,
                 fill \in {"zeros", "ramp"}}
  /\ ret = Pending
  /\ DrawIdle
  /\ RegIdle

LibCall ==
  /\ call # NoCall
  /\ ret = Pending
  /\ LET res == transform_call(call.t, call.x, call.y, call.theta)
         after == caller_arrays(call.t, call.x, call.y, call.theta, res)
     IN /\ ret' = res
        /\ call' = [call EXCEPT !.x = after.x, !.y = after.y,
                                !.theta = after.theta]
  /\ UNCHANGED <<drawVars, regVars>>

LibNext == LibCall

SpecLib == LibInit /\ [][LibNext]_vars

\* ------------------------------------------------- main.py: draw_pattern
\* {}: the dictionary without keys.
EmptyDict == [key \in {} |-> Fin(0)]

\* dict.get(key) with the default left out of account: a missing key
\* reads as zero.
dict_get_zero(d, key, default) == IF key \in DOMAIN d THEN d[key] ELSE Lit(0)

\* dict.get(key, default).
dict_get(d, key, default) == IF key \in DOMAIN d THEN d[key] ELSE default

\* np.linspace(0, 2 * np.pi * rotations, 50000).
make_theta(rotations) ==
  np_linspace(fmul(fmul(Lit(2), Fin(PI)), rotations), N)

\* The placement of an entry: translate_scale_rotate_transform with the
\* entry's optional 'translations', each key defaulted.
placement(meta, xs, ys, th) ==
  LET translations == dict_get(meta, "translations", EmptyDict)
  IN translate_scale_rotate_transform(
       xs, ys, th,
       dict_get(translations, "x_offset", Lit(0)),
       dict_get(translations, "y_offset", Lit(0)),
       dict_get(translations, "scale_x", Lit(1)),
       dict_get(translations, "scale_y", Lit(1)),
       dict_get(translations, "rotation_angle", Lit(0)))

\* Transforms the chains of the model are made of: the first two do not
\* commute, the third raises (its mode is not one the library accepts).
circ == [func |-> "circular_motion", radius |-> Lit(10), speed |-> Lit(1)]
turn == [func |-> "paper_rotation", degrees |-> Lit(90)]
bad == [func |-> "spirograph_transform", R |-> Lit(5), r |-> Lit(1),
        d |-> Lit(2), mode |-> "bogus"]

slide == [func |-> "linear_translation_transform", total_distance |-> Lit(4),
          movement_angle_degrees |-> Lit(0)]
lift == [func |-> "linear_translation_transform", total_distance |-> Lit(2),
         movement_angle_degrees |-> Lit(90)]

Chains == {<<>>, <<circ>>, <<circ, turn>>, <<turn, circ>>, <<circ, bad>>}

\* Chains of two translations, and of a translation and a rotation.
OrderChains == {<<slide, lift>>, <<slide, turn>>}
Rotations == {Lit(n) : n \in (-1)..MaxRot}
Placed == [x_offset |-> Lit(3), scale_y |-> Lit(2), rotation_angle |-> Lit(90)]

\* Entries of patterns_meta ('translations' is optional): every chain at one
\* rotation, placed and not, and one chain at every rotation count.
Entry(c, r) == [pattern |-> [transforms |-> c, rotations |-> r]]
PlacedEntry(c, r) ==
  [pattern |-> [transforms |-> c, rotations |-> r], translations |-> Placed]

Entries ==
  {Entry(c, Lit(1)) : c \in Chains}
  \cup {PlacedEntry(c, Lit(1)) : c \in Chains}
  \cup {Entry(<<circ>>, r) : r \in Rotations}
  \cup {Entry(c, Lit(1)) : c \in OrderChains}

MetaLists == UNION {[1..n -> Entries] : n \in 0..MaxMeta}

Event(op, m, j) == [op |-> op, meta |-> m, k |-> j]

\* draw_pattern has been called: plt.figure is done, the loop is to start.
DrawInit ==
  /\ patterns_meta \in MetaLists
  /\ pc = "for_meta" /\ mi = 0 /\ k = 0
  /\ theta = <<>> /\ x = <<>> /\ y = <<>>
  /\ canvas = <<>> /\ raised = "none" /\ trace = <<>>
  /\ LibIdle
  /\ RegIdle

\* As NextMeta, but x and y are zeroed for the first entry only: a later
\* entry starts from the coordinates the previous one left.
NextMetaCarry ==
  /\ pc = "for_meta"
  /\ mi < Len(patterns_meta)
  /\ LET meta == patterns_meta[mi + 1]
         th == make_theta(meta.pattern.rotations)
     IN /\ theta' = th
        /\ x' = IF mi = 0 THEN np_zeros_like(th) ELSE x
        /\ y' = IF mi = 0 THEN np_zeros_like(th) ELSE y
        /\ trace' = Append(trace, Event("theta", mi + 1, 0))
  /\ mi' = mi + 1
  /\ k' = 0
  /\ pc' = "for_transform"
  /\ UNCHANGED <<patterns_meta, canvas, raised, libVars, regVars>>

\* The head of the loop body: the next entry is read, theta generated and
\* x, y zeroed.
NextMeta ==
  /\ pc = "for_meta"
  /\ mi < Len(patterns_meta)
  /\ LET meta == patterns_meta[mi + 1]
         th == make_theta(meta.pattern.rotations)
     IN /\ theta' = th
        /\ x' = np_zeros_like(th)
        /\ y' = np_zeros_like(th)
        /\ trace' = Append(trace, Event("theta", mi + 1, 0))
  /\ mi' = mi + 1
  /\ k' = 0
  /\ pc' = "for_transform"
  /\ UNCHANGED <<patterns_meta, canvas, raised, libVars, regVars>>

\* The call the inner loop makes at step j of a chain.
ChainStep(transforms, j, xs, ys, th) == transform_call(transforms[j], xs, ys, th)

\* As ApplyTransform, but the chain is walked from its last transform.
ApplyTransformReversed ==
  /\ pc = "for_transform"
  /\ LET transforms == patterns_meta[mi].pattern.transforms
     IN /\ k < Len(transforms)
        /\ LET res == ChainStep(transforms, Len(transforms) - k, x, y, theta)
           IN IF res.err = "none"
              THEN /\ x' = res.x
                   /\ y' = res.y
                   /\ k' = k + 1
                   /\ trace' = Append(trace, Event("transform", mi, k + 1))
                   /\ UNCHANGED <<pc, raised>>
              ELSE /\ pc' = "raised"
                   /\ raised' = res.err
                   /\ UNCHANGED <<x, y, k, trace>>
  /\ UNCHANGED <<patterns_meta, mi, theta, canvas, libVars, regVars>>

\* As ApplyTransform, but the placement is applied inside the loop, after
\* each transform.
ApplyTransformThenPlace ==
  /\ pc = "for_transform"
  /\ LET transforms == patterns_meta[mi].pattern.transforms
     IN /\ k < Len(transforms)
        /\ LET res == ChainStep(transforms, k + 1, x, y, theta)
           IN IF res.err = "none"
              THEN LET placed == placement(patterns_meta[mi], res.x, res.y,
                                           theta)
                   IN /\ x' = placed.x
                      /\ y' = placed.y
                      /\ k' = k + 1
                      /\ trace' = trace \o <<Event("transform", mi, k + 1),
                                             Event("place", mi, k + 1)>>
                      /\ UNCHANGED <<pc, raised>>
              ELSE /\ pc' = "raised"
                   /\ raised' = res.err
                   /\ UNCHANGED <<x, y, k, trace>>
  /\ UNCHANGED <<patterns_meta, mi, theta, canvas, libVars, regVars>>

\* One iteration of the inner loop: x, y = transform_func(x, y, theta).  An
\* exception of the transform is caught nowhere: it leaves draw_pattern.
ApplyTransform ==
  /\ pc = "for_transform"
  /\ LET transforms == patterns_meta[mi].pattern.transforms
     IN /\ k < Len(transforms)
        /\ LET res == ChainStep(transforms, k + 1, x, y, theta)
           IN IF res.err = "none"
              THEN /\ x' = res.x
                   /\ y' = res.y
                   /\ k' = k + 1
                   /\ trace' = Append(trace, Event("transform", mi, k + 1))
                   /\ UNCHANGED <<pc, raised>>
              ELSE /\ pc' = "raised"
                   /\ raised' = res.err
                   /\ UNCHANGED <<x, y, k, trace>>
  /\ UNCHANGED <<patterns_meta, mi, theta, canvas, libVars, regVars>>

\* After the inner loop: the placement of the entry.
Place ==
  /\ pc = "for_transform"
  /\ k = Len(patterns_meta[mi].pattern.transforms)
  /\ LET placed == placement(patterns_meta[mi], x, y, theta)
     IN /\ x' = placed.x
        /\ y' = placed.y
  /\ trace' = Append(trace, Event("place", mi, k))
  /\ pc' = "plot"
  /\ UNCHANGED <<patterns_meta, mi, k, theta, canvas, raised, libVars, regVars>>

\* plt.plot(x, y, ...): the polyline of the entry goes to the canvas.
Plot ==
  /\ pc = "plot"
  /\ canvas' = Append(canvas, [meta |-> mi, x |-> x, y |-> y])
  /\ trace' = Append(trace, Event("plot", mi, k))
  /\ pc' = "for_meta"
  /\ UNCHANGED <<patterns_meta, mi, k, theta, x, y, raised, libVars, regVars>>

\* The list is exhausted: axis settings, savefig, plt.show.
Show ==
  /\ pc = "for_meta"
  /\ mi = Len(patterns_meta)
  /\ trace' = Append(trace, Event("show", mi, 0))
  /\ pc' = "done"
  /\ UNCHANGED <<patterns_meta, mi, k, theta, x, y, canvas, raised, libVars, regVars>>

Init == DrawInit

Next == NextMeta \/ ApplyTransform \/ Place \/ Plot \/ Show

Spec == Init /\ [][Next]_vars

\* ------------------------------- one call of a transform over a full sweep
\* A transform is called as draw_pattern calls the first of a chain (or a
\* later one, from a ramp): theta is the sweep generated for a whole,
\* positive rotation count.
SweepInit ==
  /\ call \in {[t |-> t, theta |-> make_theta(Lit(r)),
                x |-> Coords(N, fill).x, y |-> Coords(N, fill).y] :
                 t \in LibTransforms, r \in 1..MaxRot,
                 fill \in {"zeros", "ramp"}}
  /\ ret = Pending
  /\ DrawIdle
  /\ RegIdle

SpecSweep == SweepInit /\ [][LibNext]_vars

\* ------------------------------------------------- patterns.py: Patterns
\* The values of the dict literal of __init__, in evaluation order: the key,
\* the method that builds the pattern, the file it loads ("none" if none)
\* and the pattern's rotations.
Preset(name, create, svg, rotations) ==
  [name |-> name, create |-> create, svg |-> svg, rotations |-> rotations]

Presets ==
  << Preset("croissant", "create_croissant_pattern", "none", 235),
     Preset("tube", "create_tube_pattern", "none", 200),
     Preset("simple_pent_transform", "create_simple_pent_transform_pattern",
            "none", 60),
     Preset("meta_spiral", "meta_spiral", "none", 200),
     Preset("transform_set_2", "create_transform_set_2",
            "single_vector.svg", 130),
     Preset("triangle_test", "create_triangle_test_pattern", "none", 230),
     Preset("classic_spirograph", "create_classic_spirograph_pattern",
            "none", 30),
     Preset("rectangle_spirograph", "create_rectangle_spirograph_pattern",
            "none", 120),
     Preset("n_gon_test", "create_n_gon_test_pattern", "none", 230),
     Preset("scramble", "create_scramble_pattern", "single_vector.svg", 130),
     Preset("x_ray_shell", "create_x_ray_shell_pattern", "none", 250),
     Preset("banana", "create_banana_pattern", "none", 230),
     Preset("another_simple_shell", "create_another_simple_snail_pattern",
            "none", 200),
     Preset("create_simple_snail_pattern", "create_simple_snail_pattern",
            "none", 200),
     Preset("create_sparse_shell_pattern", "create_sparse_shell_pattern",
            "none", 50) >>

PresetNames == {Presets[i].name : i \in 1..Len(Presets)}

\* load_svg_path: svg2paths raises when the file cannot be read, and an
\* empty list of paths is turned into ValueError.
load_svg_path(file) ==
  CASE file = "missing" -> "FileNotFoundError"
    [] file = "nopaths" -> "ValueError"
    [] file = "ok" -> "none"

\* The exception a create_* method raises, "none" when it returns.
create_pattern(preset, file) ==
  IF preset.svg = "none" THEN "none" ELSE load_svg_path(file)

None == [name |-> "None"]

\* Patterns() has been called.
RegInit ==
  /\ svg_file \in {"ok", "missing", "nopaths"}
  /\ reg_pc = "init" /\ built = 0
  /\ patterns = <<>> /\ reg_raised = "none" /\ got = <<>>
  /\ LibIdle
  /\ DrawIdle

\* The next value of the dict literal is evaluated.  An exception of the
\* create_* method leaves the constructor: no Patterns object exists.
CreatePreset ==
  /\ reg_pc = "init"
  /\ built < Len(Presets)
  /\ LET e == create_pattern(Presets[built + 1], svg_file)
     IN IF e = "none"
        THEN built' = built + 1 /\ UNCHANGED <<reg_pc, reg_raised>>
        ELSE reg_pc' = "raised" /\ reg_raised' = e /\ UNCHANGED built
  /\ UNCHANGED <<svg_file, patterns, got, libVars, drawVars>>

\* All values are evaluated: the dict is assigned to self.patterns.
FinishInit ==
  /\ reg_pc = "init"
  /\ built = Len(Presets)
  /\ patterns' = [n \in PresetNames |->
                    CHOOSE p \in {Presets[i] : i \in 1..Len(Presets)} :
                      p.name = n]
  /\ reg_pc' = "ready"
  /\ UNCHANGED <<svg_file, built, reg_raised, got, libVars, drawVars>>

\* get_pattern(name): self.patterns.get(name).
get_pattern(name) == IF name \in DOMAIN patterns THEN patterns[name] ELSE None

GetPattern ==
  /\ reg_pc = "ready"
  /\ Len(got) < MaxRequests
  /\ \E name \in PresetNames \cup {"no_such_pattern"} :
       got' = Append(got, [name |-> name, pattern |-> get_pattern(name)])
  /\ UNCHANGED <<svg_file, reg_pc, built, patterns, reg_raised, libVars,
                 drawVars>>

RegNext == CreatePreset \/ FinishInit \/ GetPattern

SpecReg == RegInit /\ [][RegNext]_vars

\* ------------------------------------------------ claims on a library call
Returned == ret.err = "none"
Swap(s, i, j) == [s EXCEPT ![i] = s[j], ![j] = s[i]]

\* C3: every transform that returns gives x' and y' of exactly theta's
\* length, and output index i is computed from sample i: exchanging two
\* samples (other than the last, which is theta_max) in x, y and theta
\* exchanges the same two outputs and changes no other.
C3_LengthAndAlignment ==
  Returned =>
    /\ Len(ret.x) = Len(call.theta)
    /\ Len(ret.y) = Len(call.theta)
    /\ \A i, j \in 1..(Len(call.theta) - 1) :
         i < j =>
         LET again == transform_call(call.t, Swap(call.x, i, j),
                                     Swap(call.y, i, j),
                                     Swap(call.theta, i, j))
         IN /\ again.err = "none"
            /\ again.x = Swap(ret.x, i, j)
            /\ again.y = Swap(ret.y, i, j)

\* C3 witness: the path trace has returned for a theta of full length whose
\* first two samples differ, from a non-zero incoming ramp.
C3_Witness ==
  /\ Returned
  /\ call.t.func = "svg_path_transform"
  /\ Len(call.theta) = MaxLen
  /\ call.theta[1] # call.theta[2]
  /\ call.x[1] # Fin(0)
  /\ ret.x[1] # ret.x[2]

\* The modes each spirograph transform accepts.
AcceptedModes(func) ==
  IF func = "polygon_spirograph_transform"
  THEN {"hypocyclogon", "epicyclogon"}
  ELSE {"hypotrochoid", "epitrochoid"}

ModeTransforms == {"spirograph_transform", "elliptical_spirograph_transform",
                   "polygon_spirograph_transform"}

\* C6: a mode outside the transform's accepted set makes the call raise
\* ValueError and return no coordinates, whatever the other parameters.
C6_InvalidModeRaisesValueError ==
  (/\ ret # Pending
   /\ call.t.func \in ModeTransforms
   /\ call.t.mode \notin AcceptedModes(call.t.func))
    => (ret.err = "ValueError" /\ ret.x = <<>> /\ ret.y = <<>>)

\* phi_norm of the three named rate functions at progress p.
NamedPhiNorm(name, p) ==
  CASE name = "linear" -> p
    [] name = "quadratic" -> fmul(p, p)
    [] name = "sinusoidal" -> np_sin(fdiv(fmul(p, Fin(PI)), Lit(2)))

\* C7: paper_rotation_transform_non_linear returns for exactly the names
\* 'linear', 'quadratic', 'sinusoidal' (rotating sample i by phi_norm(p_i)
\* times the total rotation, phi_norm = p, p^2, sin(p * pi / 2)) and for a
\* callable; every other rotation_rate_function raises ValueError and
\* returns no coordinates.
C7_RateFunctionNames ==
  (ret # Pending /\ call.t.func = "paper_rotation_transform_non_linear") =>
    LET f == call.t.rotation_rate_function
        total == np_deg2rad(call.t.degrees)
        p(i) == fdiv(call.theta[i], Last(call.theta))
    IN IF f.kind = "str" /\ f.name \in RateNames
       THEN ret = Rotated(call.x, call.y,
                          [i \in 1..Len(call.theta) |->
                             fmul(NamedPhiNorm(f.name, p(i)), total)])
       ELSE IF f.kind = "callable"
       THEN Returned
       ELSE ret.err = "ValueError" /\ ret.x = <<>> /\ ret.y = <<>>

\* C7 witness: the unknown name 'cubic' has been rejected with ValueError.
C7_Witness ==
  /\ call.t.func = "paper_rotation_transform_non_linear"
  /\ call.t.rotation_rate_function = Str("cubic")
  /\ ret.err = "ValueError"

\* ------------------------------------------------- claims on draw_pattern
\* T_j(...T_2(T_1(0, 0, theta), theta)..., theta): the left fold of the
\* first j transforms of a chain from the all-zero coordinates.
RECURSIVE ChainValue(_, _, _)
ChainValue(transforms, j, th) ==
  IF j = 0 THEN Ok(np_zeros_like(th), np_zeros_like(th))
  ELSE LET prev == ChainValue(transforms, j - 1, th)
       IN IF prev.err # "none" THEN prev
          ELSE transform_call(transforms[j], prev.x, prev.y, th)

\* The polyline of an entry as a function of the entry alone.
EntryPolyline(meta) ==
  LET th == make_theta(meta.pattern.rotations)
      transforms == meta.pattern.transforms
      chain == ChainValue(transforms, Len(transforms), th)
  IN IF chain.err # "none" THEN chain
     ELSE placement(meta, chain.x, chain.y, th)

EventsOf(m) == SelectSeq(trace, LAMBDA e : e.meta = m /\ e.op # "show")
TransformsOf(m) == patterns_meta[m].pattern.transforms
Current == patterns_meta[mi]

\* C1: while an entry's chain runs, theta is the sequence generated for the
\* entry, the transforms applied so far are the first k of the chain, in
\* list order and once each, and x, y are their left fold from the all-zero
\* sequences of theta's length; a transform that raised is the next one of
\* that fold.
C1_ChainIsLeftFold ==
  (pc \in {"for_transform", "raised"}) =>
    LET transforms == TransformsOf(mi)
        fold == ChainValue(transforms, k, theta)
    IN /\ theta = make_theta(Current.pattern.rotations)
       /\ k \in 0..Len(transforms)
       /\ Len(x) = Len(theta) /\ Len(y) = Len(theta)
       /\ k = 0 => (x = np_zeros_like(theta) /\ y = np_zeros_like(theta))
       /\ fold.err = "none" /\ x = fold.x /\ y = fold.y
       /\ SelectSeq(EventsOf(mi), LAMBDA e : e.op = "transform")
            = [j \in 1..k |-> Event("transform", mi, j)]
       /\ pc = "raised" =>
            /\ k < Len(transforms)
            /\ ChainValue(transforms, k + 1, theta).err = raised

\* C1 witness: a chain of two transforms that do not commute has run in
\* full, and its result differs from that of the chain in the other order.
C1_Witness ==
  /\ pc = "for_transform"
  /\ k = 2
  /\ TransformsOf(mi) = <<circ, turn>>
  /\ x # ChainValue(<<turn, circ>>, 2, theta).x
  /\ x # np_zeros_like(theta)

SpacingTolerance == ((N - 1) * (N - 2)) \div 2

\* C4: for rotations > 0 the theta of the entry has N samples, starts at
\* 0, ends at 2 * pi * rotations, is strictly increasing, and is evenly
\* spaced (every gap is stop / (N - 1) up to the rounding of the step).
C4_ThetaGrid ==
  (mi >= 1 /\ flt(Fin(0), Current.pattern.rotations)) =>
    /\ Len(theta) = N
    /\ theta[1] = Fin(0)
    /\ theta[N] = fmul(Fin(TWO_PI), Current.pattern.rotations)
    /\ \A i \in 1..(N - 1) :
         /\ flt(theta[i], theta[i + 1])
         /\ Abs((N - 1) * (theta[i + 1].v - theta[i].v)
                  - (theta[N].v - theta[1].v)) <= SpacingTolerance

\* C4 witness: theta has been generated for the largest rotation count.
C4_Witness ==
  /\ mi >= 1
  /\ Current.pattern.rotations = Lit(MaxRot)
  /\ theta[N] = Fin(TWO_PI * MaxRot)
  /\ flt(Fin(0), theta[2])

\* C5: an entry with rotations <= 0 makes draw_pattern raise: no theta is
\* generated for it, nothing of its chain runs and no polyline of it is
\* plotted.
C5_NonPositiveRotationsRejected ==
  \A m \in 1..mi :
    fle(patterns_meta[m].pattern.rotations, Fin(0)) =>
      /\ EventsOf(m) = <<>>
      /\ \A i \in 1..Len(canvas) : canvas[i].meta # m
      /\ m = mi => pc = "raised"

\* C9: when draw_pattern has ended, by an exception or not, every entry
\* whose own chain raises nothing has been plotted.
C9_ErrorIsLocalToItsEntry ==
  (pc \in {"raised", "done"}) =>
    \A m \in 1..Len(patterns_meta) :
      EntryPolyline(patterns_meta[m]).err = "none" =>
        \E i \in 1..Len(canvas) : canvas[i].meta = m

\* C10: every polyline plotted is the polyline of its own entry: a function
\* of the entry's transforms, rotations and placement only, whatever its
\* position in the list and whatever the entries around it.
C10_PolylineDependsOnOwnEntry ==
  \A i \in 1..Len(canvas) :
    LET own == EntryPolyline(patterns_meta[canvas[i].meta])
    IN /\ canvas[i].meta = i
       /\ own.err = "none"
       /\ canvas[i].x = own.x
       /\ canvas[i].y = own.y

\* C10 witness: the same entry stands first and second in the list, it
\* leaves x and y away from the origin, and both its polylines are plotted
\* and equal.
C10_Witness ==
  /\ Len(canvas) = 2
  /\ patterns_meta[1] = patterns_meta[2]
  /\ canvas[1].x = canvas[2].x
  /\ canvas[1].y = canvas[2].y
  /\ canvas[1].x # np_zeros_like(theta)

\* ------------------------------------------------ claims on the registry
\* C8: when the vector-path file cannot be loaded and the construction of
\* the registry has ended, the registry exists and every preset that loads
\* no file can be obtained from it with get_pattern.
C8_SvgFailureIsLocal ==
  (svg_file # "ok" /\ reg_pc \in {"ready", "raised"}) =>
    /\ reg_pc = "ready"
    /\ \A i \in 1..Len(Presets) :
         Presets[i].svg = "none" => get_pattern(Presets[i].name) # None

\* ---------------------------------------------- claims on a library call
\* C11: no call of a transform changes the x, y or theta the caller passed:
\* across every step the caller's three sequences hold what they held, the
\* transforms that write element by element included.
C11_InputsNotModified ==
  [][/\ call'.x = call.x
     /\ call'.y = call.y
     /\ call'.theta = call.theta]_vars

\* C11 witness: the rectangle spirograph, which writes element by element,
\* has returned coordinates other than those passed, and the caller's ramp
\* is as it was.
C11_Witness ==
  /\ ret.err = "none"
  /\ call.t.func = "spirograph_rectangle_transform"
  /\ ret.x # call.x
  /\ call.x = Coords(Len(call.theta), "ramp").x
  /\ call.y = Coords(Len(call.theta), "ramp").y

\* ------------------------------------------------- claims on the placement
\* C12: for an entry without 'translations' the placement is called with
\* x_offset = 0, y_offset = 0, scale_x = 1, scale_y = 1, rotation_angle = 0
\* and what is about to be plotted equals, at every index, the coordinates
\* the chain produced; the placement with these parameters maps the
\* coordinates to themselves.
C12_DefaultPlacementIsIdentity ==
  (pc = "plot" /\ "translations" \notin DOMAIN Current) =>
    LET chain == ChainValue(TransformsOf(mi), k, theta)
        again == translate_scale_rotate_transform(
                   x, y, theta, Lit(0), Lit(0), Lit(1), Lit(1), Lit(0))
    IN /\ Len(x) = Len(chain.x) /\ Len(y) = Len(chain.y)
       /\ \A i \in 1..Len(x) : x[i] = chain.x[i] /\ y[i] = chain.y[i]
       /\ again.err = "none" /\ again.x = x /\ again.y = y

\* C12 witness: an entry without 'translations' whose chain of two
\* transforms left the origin is about to be plotted.
C12_Witness ==
  /\ pc = "plot"
  /\ "translations" \notin DOMAIN Current
  /\ Len(TransformsOf(mi)) = 2
  /\ x # np_zeros_like(theta)
  /\ y # np_zeros_like(theta)

\* C13: translate_scale_rotate_transform scales, then rotates
\* counterclockwise by rotation_angle degrees, then translates:
\* x' = sx*x*cos(a) - sy*y*sin(a) + x_offset and
\* y' = sx*x*sin(a) + sy*y*cos(a) + y_offset at every index; and (1, 0) with
\* rotation_angle = 90 and unit scales maps to (0, 1).
C13_ScaleRotateTranslate ==
  /\ (ret # Pending /\ call.t.func = "translate_scale_rotate_transform") =>
       LET t == call.t
           a == np_deg2rad(t.rotation_angle)
           sx(i) == fmul(t.scale_x, call.x[i])
           sy(i) == fmul(t.scale_y, call.y[i])
       IN /\ Returned
          /\ Len(ret.x) = Len(call.x) /\ Len(ret.y) = Len(call.y)
          /\ \A i \in 1..Len(call.x) :
               /\ ret.x[i] = fadd(fsub(fmul(sx(i), np_cos(a)),
                                       fmul(sy(i), np_sin(a))), t.x_offset)
               /\ ret.y[i] = fadd(fadd(fmul(sx(i), np_sin(a)),
                                       fmul(sy(i), np_cos(a))), t.y_offset)
  /\ LET one == translate_scale_rotate_transform(
                  <<Lit(1)>>, <<Lit(0)>>, <<Fin(0)>>,
                  Lit(0), Lit(0), Lit(1), Lit(1), Lit(90))
     IN one.x = <<Lit(0)>> /\ one.y = <<Lit(1)>>

\* C13 witness: the point (1, -2) scaled by (2, 3), turned by 90 degrees and
\* moved by (3, -1) has come back as (9, 1): the offsets were neither scaled
\* nor rotated.
C13_Witness ==
  /\ Returned
  /\ call.t.func = "translate_scale_rotate_transform"
  /\ call.t.rotation_angle = Lit(90)
  /\ call.t.x_offset = Lit(3) /\ call.t.scale_x = Lit(2)
  /\ call.x[1] = Lit(1) /\ call.y[1] = Lit(-2)
  /\ ret.x[1] = Lit(9) /\ ret.y[1] = Lit(1)

\* ------------------------------------------------ claims on chain order
\* The result of a chain of two transforms run in the other order.
Swapped == ChainValue(<<TransformsOf(mi)[2], TransformsOf(mi)[1]>>, 2, theta)

\* C14: when a chain of two transforms has run from the zero start, a
\* chain of two linear_translation_transform stages has given what the
\* chain in the other order gives over the same theta, and the chain
\* [linear_translation_transform (distance 4), paper_rotation (90 degrees)]
\* has given coordinates that differ from those of the chain in the other
\* order.
C14_ChainOrder ==
  (pc = "for_transform" /\ k = 2 /\ Len(TransformsOf(mi)) = 2) =>
    LET transforms == TransformsOf(mi)
    IN /\ (\A j \in 1..2 : transforms[j].func = "linear_translation_transform")
            => (Swapped.err = "none" /\ x = Swapped.x /\ y = Swapped.y)
       /\ transforms = <<slide, turn>>
            => (Swapped.err = "none" /\ (x # Swapped.x \/ y # Swapped.y))

\* C14 witness: a chain of two translations has been plotted away from the
\* origin, and the chain of a translation and a rotation has run and differs
\* from the chain in the other order.
C14_Witness ==
  /\ mi = 2 /\ Len(canvas) = 1
  /\ TransformsOf(1) = <<slide, lift>>
  /\ canvas[1].x # np_zeros_like(theta) /\ canvas[1].y # np_zeros_like(theta)
  /\ pc = "for_transform" /\ k = 2
  /\ TransformsOf(2) = <<slide, turn>>
  /\ x # Swapped.x

\* --------------------------------------------- claims on a full theta sweep
\* Two coordinates are equal within a tenth.
Near(a, b) == IsFin(a) /\ IsFin(b) /\ Abs(a.v - b.v) * 10 <= Scale

FullTurn ==
  /\ ret # Pending
  /\ call.t.func = "paper_rotation"
  /\ call.t.degrees = Lit(360)

\* C15 as stated: paper_rotation with degrees = 360 over a full sweep returns
\* x and y equal, within tolerance, to the x and y given, at every sample.
C15_FullTurnReturnsInput ==
  FullTurn =>
    /\ Returned
    /\ \A i \in 1..Len(call.theta) :
         Near(ret.x[i], call.x[i]) /\ Near(ret.y[i], call.y[i])

\* C15 amended: paper_rotation with degrees = 360 over a full sweep turns
\* sample i by 2 * pi * theta[i] / theta_max: the first and the last sample
\* come back as given, the samples between them are turned by a part of the
\* full turn.
C15_FullTurnAtEnds ==
  FullTurn =>
    LET n == Len(call.theta)
        phi == [i \in 1..n |->
                  fmul(fdiv(call.theta[i], call.theta[n]), Fin(TWO_PI))]
    IN /\ Returned
       /\ ret.x = Rotated(call.x, call.y, phi).x
       /\ ret.y = Rotated(call.x, call.y, phi).y
       /\ Near(ret.x[1], call.x[1]) /\ Near(ret.y[1], call.y[1])
       /\ Near(ret.x[n], call.x[n]) /\ Near(ret.y[n], call.y[n])

\* C15 witness: a full turn over a sweep has returned a ramp with its last
\* sample as given and its second sample moved.
C15_Witness ==
  /\ FullTurn /\ Returned
  /\ call.x[1] # Fin(0)
  /\ ret.x[N] = call.x[N] /\ ret.y[N] = call.y[N]
  /\ ~Near(ret.x[2], call.x[2])

Hypotrochoid512 ==
  /\ ret # Pending
  /\ call.t.func = "spirograph_transform"
  /\ call.t.mode = "hypotrochoid"
  /\ call.t.R = Lit(5) /\ call.t.r = Lit(1) /\ call.t.d = Lit(2)

\* C16: spirograph_transform in mode 'hypotrochoid' with R = 5, r = 1, d = 2
\* over a sweep of a whole number of rotations adds to the last sample what it
\* adds to the first: from the zero start the last output point is the first
\* output point, the curve is closed.
C16_HypotrochoidCloses ==
  Hypotrochoid512 =>
    LET n == Len(call.theta)
    IN /\ Returned
       /\ Near(fsub(ret.x[n], call.x[n]), fsub(ret.x[1], call.x[1]))
       /\ Near(fsub(ret.y[n], call.y[n]), fsub(ret.y[1], call.y[1]))
       /\ call.x = np_zeros_like(call.theta) /\ call.y = np_zeros_like(call.theta)
            => Near(ret.x[n], ret.x[1]) /\ Near(ret.y[n], ret.y[1])

\* C16 witness: from the zero start the curve has begun at (6, 0), left it,
\* and ended at (6, 0).
C16_Witness ==
  /\ Hypotrochoid512 /\ Returned
  /\ call.x = np_zeros_like(call.theta)
  /\ call.y = np_zeros_like(call.theta)
  /\ ret.x[1] = Lit(6) /\ ret.y[1] = Fin(0)
  /\ ~Near(ret.x[2], ret.x[1])
  /\ ret.x[N] = Lit(6) /\ ret.y[N] = Fin(0)

\* C17: circular_motion adds (radius * cos(speed * theta[i]),
\* radius * sin(speed * theta[i])) to incoming point i and nothing else; from
\* zero input with radius = 10, speed = 1 and theta = [0, pi/2, pi] it gives
\* x = [10, 0, -10], y = [0, 10, 0].
C17_CircularMotionOffset ==
  /\ (ret # Pending /\ call.t.func = "circular_motion") =>
       /\ Returned
       /\ Len(ret.x) = Len(call.theta) /\ Len(ret.y) = Len(call.theta)
       /\ \A i \in 1..Len(call.theta) :
            LET a == fmul(call.t.speed, call.theta[i])
            IN /\ fsub(ret.x[i], call.x[i]) = fmul(call.t.radius, np_cos(a))
               /\ fsub(ret.y[i], call.y[i]) = fmul(call.t.radius, np_sin(a))
  /\ LET zeros == <<Fin(0), Fin(0), Fin(0)>>
         scenario == circular_motion(zeros, zeros,
                                     <<Fin(0), Fin(HALF_PI), Fin(PI)>>,
                                     Lit(10), Lit(1))
     IN /\ scenario.x = <<Lit(10), Lit(0), Lit(-10)>>
        /\ scenario.y = <<Lit(0), Lit(10), Lit(0)>>

\* C17 witness: with radius = 10 and speed = 1 a ramp has come back moved by
\* (10, 0), (0, 10), (-10, 0) at theta = 0, pi/2, pi.
C17_Witness ==
  /\ Returned
  /\ call.t.func = "circular_motion"
  /\ call.t.radius = Lit(10) /\ call.t.speed = Lit(1)
  /\ call.theta[2] = Fin(HALF_PI) /\ call.theta[3] = Fin(PI)
  /\ call.x[1] = Lit(1) /\ call.y[1] = Lit(-2)
  /\ ret.x[1] = Lit(11) /\ ret.y[1] = Lit(-2)
  /\ ret.x[2] = Lit(2) /\ ret.y[2] = Lit(6)
  /\ ret.x[3] = Lit(-7) /\ ret.y[3] = Lit(-6)

\* ------------------------------------------------ claims on the spirals
ZeroRateSpiral ==
  /\ ret # Pending
  /\ call.t.func = "variable_spiral_transform"
  /\ call.t.start_rate = Lit(0) /\ call.t.end_rate = Lit(0)
  /\ Last(call.theta) # Fin(0)

\* C18: variable_spiral_transform with start_rate = 0 and end_rate = 0 has
\* radius 0 at every sample: for any incoming x, y and any theta whose last
\* element is not zero, it returns x and y as given.
C18_ZeroRateSpiralIsIdentity ==
  ZeroRateSpiral =>
    /\ \A i \in 1..Len(call.theta) :
         variable_radius(call.theta, Lit(0), Lit(0))[i] = Fin(0)
    /\ Returned
    /\ ret.x = call.x
    /\ ret.y = call.y

\* C18 witness: a ramp has been returned as given over a theta of three
\* different angles.
C18_Witness ==
  /\ ZeroRateSpiral /\ Returned
  /\ Len(call.theta) = MaxLen
  /\ call.theta[1] # call.theta[2]
  /\ call.theta[2] # Fin(0)
  /\ call.x[1] = Lit(1)
  /\ ret.x = call.x /\ ret.y = call.y

NgonCall ==
  /\ ret # Pending
  /\ call.t.func = "variable_spiral_ngon_transform"

\* C19: for every list of side lengths, closing into a polygon or not,
\* variable_spiral_ngon_transform prints its warning and returns x and y
\* of theta's length: neither the vertex construction nor the lookup of a
\* sample's edge raises.
C19_NgonAlwaysReturns ==
  NgonCall =>
    /\ ret.warned
    /\ Returned
    /\ Len(ret.x) = Len(call.theta)
    /\ Len(ret.y) = Len(call.theta)

\* The same for the lists of side lengths that hold at least one side and
\* no side of length zero.
NgonNonZeroSidesReturn ==
  (/\ NgonCall
   /\ call.t.side_lengths # <<>>
   /\ \A i \in 1..Len(call.t.side_lengths) : call.t.side_lengths[i] # Fin(0))
  => /\ ret.warned
     /\ Returned
     /\ Len(ret.x) = Len(call.theta)
     /\ Len(ret.y) = Len(call.theta)

\* ------------------------------------------- claims on the svg path trace
SvgCall ==
  /\ ret # Pending
  /\ call.t.func = "svg_path_transform"

NonDecreasing(a) == \A i \in 1..Len(a) : \A j \in i..Len(a) : fle(a[i], a[j])

\* C20: in svg_path_transform, whatever lengths were sampled from the path
\* and whatever its total length, the arclength table given to np.interp is
\* non-decreasing over all of its entries, the last one (overwritten with
\* the total length) included.
C20_ArclengthTableNonDecreasing ==
  SvgCall => NonDecreasing(cumulative_lengths(call.t.svg_path))

\* The table is non-decreasing before its last entry is overwritten, and
\* stays so when the total length is not below the running maximum.
ArclengthTableBeforeOverwrite ==
  SvgCall =>
    LET acc == np_maximum_accumulate(call.t.svg_path.cum)
    IN /\ NonDecreasing(acc)
       /\ fle(Last(acc), call.t.svg_path.total) =>
            NonDecreasing(cumulative_lengths(call.t.svg_path))

\* --------------------------------------- claims on the custom rate function
CallableRateCall ==
  /\ ret # Pending
  /\ call.t.func = "paper_rotation_transform_non_linear"
  /\ call.t.rotation_rate_function.kind = "callable"

InUnitInterval(v) == fle(Lit(0), v) /\ fle(v, Lit(1))

\* C21: with a custom callable rate function, whatever the callable
\* returns, the normalised rotation of every sample lies in [0, 1], and the
\* angle applied to the sample lies between 0 and the total rotation.
C21_CallableRateClipped ==
  CallableRateCall =>
    LET total == np_deg2rad(call.t.degrees)
        pn == phi_normalized(call.theta, call.t.rotation_rate_function)
    IN \A i \in 1..Len(call.theta) :
         /\ InUnitInterval(pn[i])
         /\ fle(Lit(0), fmul(pn[i], total))
         /\ fle(fmul(pn[i], total), total)

\* The same at the samples where the callable returns a number (anything
\* but nan, the infinities included).
CallableRateClippedUnlessNaN ==
  CallableRateCall =>
    LET f == call.t.rotation_rate_function
        total == np_deg2rad(call.t.degrees)
        pn == phi_normalized(call.theta, f)
    IN \A i \in 1..Len(call.theta) :
         ~IsNaN(rate_call(f, fdiv(call.theta[i], Last(call.theta)))) =>
           /\ InUnitInterval(pn[i])
           /\ fle(Lit(0), fmul(pn[i], total))
           /\ fle(fmul(pn[i], total), total)

\* ------------------------------------------------ claims on the rectangle
RectangleCall ==
  /\ ret # Pending
  /\ call.t.func = "spirograph_rectangle_transform"
  /\ flt(Lit(0), call.t.rect_width)
  /\ flt(Lit(0), call.t.rect_height)
  /\ flt(Lit(0), call.t.gear_radius)

\* The sides, in the order of increasing distance, as [from, to) intervals.
SideStart(side, w, h) ==
  CASE side = 1 -> Lit(0)
    [] side = 2 -> w
    [] side = 3 -> fadd(w, h)
    [] side = 4 -> fadd(fmul(Lit(2), w), h)
    [] side = 5 -> fmul(Lit(2), fadd(w, h))

OnBoundary(px, py, w, h) ==
  LET half_w == fdiv(w, Lit(2))
      half_h == fdiv(h, Lit(2))
  IN /\ IsFin(px) /\ IsFin(py)
     /\ Abs(px.v) <= half_w.v /\ Abs(py.v) <= half_h.v
     /\ Abs(px.v) = half_w.v \/ Abs(py.v) = half_h.v

\* C22: in spirograph_rectangle_transform with positive width, height and
\* gear radius, at every theta value the distance along the perimeter lies
\* in [0, perimeter), the side selected is the one of top, right, bottom,
\* left (in that order of increasing distance) whose stretch holds the
\* distance, and no other stretch holds it; the gear centre lies on the
\* boundary of [-w/2, w/2] x [-h/2, h/2]; and the four sides join at the
\* corners, the end of the left side being the start of the top side.
C22_RectanglePerimeter ==
  RectangleCall =>
    LET w == call.t.rect_width
        h == call.t.rect_height
        c(i) == gear_center(call.theta[i], w, h, call.t.gear_radius)
        Holds(side, d) == /\ fle(SideStart(side, w, h), d)
                          /\ flt(d, SideStart(side + 1, w, h))
    IN /\ \A i \in 1..Len(call.theta) :
            /\ fle(Lit(0), c(i).dist)
            /\ flt(c(i).dist, SideStart(5, w, h))
            /\ \A side \in 1..4 : Holds(side, c(i).dist) <=> side = c(i).side
            /\ OnBoundary(c(i).x, c(i).y, w, h)
       /\ \A side \in 1..3 :
            side_xy(side, SideStart(side + 1, w, h), w, h)
              = side_xy(side + 1, SideStart(side + 1, w, h), w, h)
       /\ side_xy(4, SideStart(5, w, h), w, h) = side_xy(1, Lit(0), w, h)

\* C22 witness: one call whose three samples lie on the top, the right and
\* the bottom side.
C22_Witness ==
  /\ RectangleCall /\ Returned
  /\ Len(call.theta) = MaxLen
  /\ LET c(i) == gear_center(call.theta[i], call.t.rect_width,
                             call.t.rect_height, call.t.gear_radius)
     IN /\ c(1).side = 1
        /\ c(2).side = 2
        /\ c(3).side = 3
\* A sample on the left side has been computed as well.
RectangleLeftSideReached ==
  /\ RectangleCall /\ Returned
  /\ \E i \in 1..Len(call.theta) :
       gear_center(call.theta[i], call.t.rect_width, call.t.rect_height,
                   call.t.gear_radius).side = 4

\* ------------------------------- claims on the stages that replace x and y
ReplacingStages ==
  {"svg_path_transform", "variable_spiral_triangle_transform",
   "variable_spiral_ngon_transform"}

ReplacingCall ==
  /\ ret # Pending
  /\ call.t.func \in ReplacingStages

\* C23: what svg_path_transform, variable_spiral_triangle_transform and
\* variable_spiral_ngon_transform give does not depend on the incoming x and
\* y: from any other coordinates of the same length, with the same theta and
\* parameters, the result is the same; so, coming second in a chain, such a
\* stage gives what it gives alone, whatever the first stage made.
C23_IncomingCoordinatesIgnored ==
  ReplacingCall =>
    /\ \A fill \in {"zeros", "ramp"} :
         transform_call(call.t, Coords(Len(call.theta), fill).x,
                        Coords(Len(call.theta), fill).y, call.theta) = ret
    /\ \A first \in {circ, slide} :
         LET before == transform_call(first, call.x, call.y, call.theta)
         IN before.err = "none" =>
              transform_call(call.t, before.x, before.y, call.theta) = ret

\* C23 witness: over a sweep the path trace has returned, from a ramp,
\* points that are not all the same, and circular_motion before it would
\* have handed it other coordinates than the ramp.
C23_Witness ==
  /\ ReplacingCall /\ Returned
  /\ call.t.func = "svg_path_transform"
  /\ Len(call.theta) = N
  /\ call.x = Coords(N, "ramp").x
  /\ ret.x[1] # ret.x[N]
  /\ transform_call(circ, call.x, call.y, call.theta).x # call.x

====
